---- MODULE Spec2Model ----
(***************************************************************************)
(* Interaction core of the conrod widgets envelope_editor.rs, xy_pad.rs    *)
(* and text_box.rs as frame-synchronous state machines.  One action per    *)
(* widget per call of                                                      *)
(* Drawable::draw: it reads the persisted widget state and the mouse       *)
(* snapshot, hit-tests, computes the next state, mutates the externally    *)
(* owned value, invokes the callback and persists the next state.          *)
(*                                                                         *)
(* Numbers.  Pixels are integers.  Percentages (f32 in 0.0 .. 1.0 in the    *)
(* source) are fixed-point integers in 0 .. PercUnit.  The mouse is sampled *)
(* on a grid of pixel positions and point values lie on the matching grid   *)
(* of values, so that every division of map_range and percentage is exact. *)
(* skew_y is the default 1.0, so powf(skew) and powf(1/skew) are omitted.   *)
(* Vec indices are 0-based as in the source; env[idx] is At(env, idx).      *)
(***************************************************************************)
EXTENDS Integers, Sequences, FiniteSets, TLC

VARIABLES
    env,            \* EnvelopeEditor.env: the caller's Vec<E>, a sequence of [x, y]
    state,          \* the persisted envelope editor State for its UIID
    mouse,          \* the Mouse snapshot read by the last frame
    calls,          \* callback invocations of the last frame: <<[env, idx]>>
    op,             \* the mutation of env made by the last frame
    panicked,       \* TRUE once a frame indexed a Vec out of bounds (Rust panic)
    maybe_callback, \* TRUE iff a callback is registered (Option<F> is Some)
    xyState,        \* the persisted XYPad State
    xyPrev,         \* the XYPad State read at the start of the last frame
    xyPrev2,        \* the XYPad State read at the start of the frame before
    xyVal,          \* the caller's (x, y) handed to XYPad::new in the last frame
    xyValPrev,      \* the caller's (x, y) in the XYPad frame before
    xyMouse,        \* the Mouse snapshot of the last XYPad frame
    xyMousePrev,    \* the Mouse snapshot of the XYPad frame before
    xyNew,          \* (new_x, new_y) computed by the last XYPad frame
    xyCalls,        \* callback invocations of the last XYPad frame
    xyCallsPrev,    \* callback invocations of the XYPad frame before
    xyFrame,        \* the XYPad frame width (maybe_frame or the theme's)
    text,           \* TextBox.text: the caller's String, a sequence of characters
    tbState,        \* the persisted TextBox State(DrawState, Capturing)
    tbMouse,        \* the Mouse snapshot read by the last TextBox frame
    tbInput,        \* the entered text and pressed keys of the last TextBox frame
    tbCalls,        \* callback invocations of the last TextBox frame: the texts
    tbPanicked,     \* TRUE once a TextBox frame sliced the text out of bounds
    drawn,          \* the widget that the application loop draws
    steps           \* the steps of the last frame, in the order they were taken

envVars == <<env, state, mouse, calls, op, panicked>>
xyVars == <<xyState, xyPrev, xyPrev2, xyVal, xyValPrev, xyMouse, xyMousePrev, xyNew,
            xyCalls, xyCallsPrev, xyFrame>>
tbVars == <<text, tbState, tbMouse, tbInput, tbCalls, tbPanicked>>
vars == <<envVars, xyVars, tbVars, maybe_callback, drawn, steps>>

----------------------------------------------------------------------------
(* Bounds of the model. *)

\* Largest length of the point collection.
MaxPts == 3

----------------------------------------------------------------------------
(* utils.rs and rectangle.rs (not among the sources; from their contract). *)

\* Exact quotient, also for a negative divisor (a flipped range).
Div(a, b) == IF b < 0 THEN (0 - a) \div (0 - b) ELSE a \div b

\* Denominator of a fixed-point percentage: PercUnit stands for 1.0.
PercUnit == 128

clamp(n, start, end) ==
    IF start <= end
    THEN (IF n < start THEN start ELSE IF n > end THEN end ELSE n)
    ELSE (IF n < end THEN end ELSE IF n > start THEN start ELSE n)

map_range(val, in_min, in_max, out_min, out_max) ==
    Div((val - in_min) * (out_max - out_min), in_max - in_min) + out_min

percentage(value, lo, hi) == Div((value - lo) * PercUnit, hi - lo)

\* rectangle::is_over(pos, mouse_pos, dim): containment, edges included.
is_over(pos, mouse_pos, dim) ==
    /\ mouse_pos[1] >= pos[1] /\ mouse_pos[1] <= pos[1] + dim[1]
    /\ mouse_pos[2] >= pos[2] /\ mouse_pos[2] <= pos[2] + dim[2]

----------------------------------------------------------------------------
(* Envelope editor: configuration. *)

ee_pos == <<16, 16>>
ee_dim == <<144, 144>>
ee_frame_w == 8
ee_pad_pos == <<ee_pos[1] + ee_frame_w, ee_pos[2] + ee_frame_w>>
ee_pad_dim == <<ee_dim[1] - 2 * ee_frame_w, ee_dim[2] - 2 * ee_frame_w>>
pt_radius == 64
min_x == 0
max_x == 4
min_y == 1
max_y == 3

\* The mouse grid: outside the widget, on the frame, and on the pad (its
\* left edge, centre and right edge; its top edge and centre).
MousePos == {<<0, 24>>, <<20, 24>>} \cup ({24, 88, 152} \X {24, 88})
Buttons == {"Up", "Down"}
Mouse == [pos : MousePos, left : Buttons, right : Buttons]

\* The value grid that the pad positions of the mouse grid map onto.
GridXs == {0, 2, 4}
GridYs == {2, 3}
Points == [x : GridXs, y : GridYs]

----------------------------------------------------------------------------
(* Envelope editor: types. *)

Rect == [kind |-> "Rect"]
Pad == [kind |-> "Pad"]
EnvPoint(idx, p) == [kind |-> "EnvPoint", idx |-> idx, pos |-> p]
CurvePoint(idx, p) == [kind |-> "CurvePoint", idx |-> idx, pos |-> p]
NoElem == [kind |-> "None"]

Normal == [tag |-> "Normal"]
Highlighted(elem) == [tag |-> "Highlighted", elem |-> elem]
Clicked(elem, button) == [tag |-> "Clicked", elem |-> elem, button |-> button]

\* env[idx] for a 0-based idx.
At(s, idx) == s[idx + 1]

IsSorted(e) == \A i \in 1..(Len(e) - 1) : e[i].x <= e[i + 1].x

----------------------------------------------------------------------------
(* Envelope editor: hit-test (is_over_and_closest). *)

\* draw: the skewed percentage copy of the envelope, one entry per point.
perc_env(e) ==
    [i \in 1..Len(e) |-> [x |-> percentage(e[i].x, min_x, max_x),
                          y |-> percentage(e[i].y, min_y, max_y)]]

\* The pixel position of a percentage point on the pad (Y grows downward).
p_pos(p) ==
    <<map_range(p.x, 0, PercUnit, ee_pad_pos[1], ee_pad_pos[1] + ee_pad_dim[1]),
      map_range(p.y, 0, PercUnit, ee_pad_pos[2] + ee_pad_dim[2], ee_pad_pos[2])>>

\* The squared distance between the mouse and a pixel position.
distance(mouse_pos, q) ==
    (mouse_pos[1] - q[1]) * (mouse_pos[1] - q[1])
    + (mouse_pos[2] - q[2]) * (mouse_pos[2] - q[2])

\* ::std::f64::MAX, the initial closest_distance: above every distance.
f64_MAX == 1000000

\* The loop of is_over_and_closest from the point at 0-based index i on: a
\* point within the radius ends the scan as the hit and the closest
\* element; otherwise a strictly nearer point becomes the closest.
RECURSIVE closest_scan(_, _, _, _, _)
closest_scan(mouse_pos, perc, i, closest_distance, closest_env_point) ==
    IF i >= Len(perc) THEN <<Pad, closest_env_point>>
    ELSE LET q == p_pos(At(perc, i))
             d == distance(mouse_pos, q)
         IN IF d <= pt_radius * pt_radius
            THEN <<EnvPoint(i, q), EnvPoint(i, q)>>
            ELSE IF d < closest_distance
            THEN closest_scan(mouse_pos, perc, i + 1, d, EnvPoint(i, q))
            ELSE closest_scan(mouse_pos, perc, i + 1, closest_distance,
                              closest_env_point)

\* The hit-test taking, on the pad, the nearest point as the hit when it
\* lies within the radius, whatever its index.
is_over_and_closest_nearest(mouse_pos, perc) ==
    IF ~ is_over(ee_pos, mouse_pos, ee_dim) THEN <<NoElem, NoElem>>
    ELSE IF ~ is_over(ee_pad_pos, mouse_pos, ee_pad_dim) THEN <<Rect, Rect>>
    ELSE IF Len(perc) = 0 THEN <<Pad, Pad>>
    ELSE LET n == CHOOSE i \in 0..(Len(perc) - 1) :
                      \A j \in 0..(Len(perc) - 1) :
                          distance(mouse_pos, p_pos(At(perc, i)))
                              <= distance(mouse_pos, p_pos(At(perc, j)))
             q == p_pos(At(perc, n))
         IN IF distance(mouse_pos, q) <= pt_radius * pt_radius
            THEN <<EnvPoint(n, q), EnvPoint(n, q)>>
            ELSE <<Pad, EnvPoint(n, q)>>

\* The element under the mouse and the element closest to it.
is_over_and_closest(mouse_pos, perc) ==
    IF ~ is_over(ee_pos, mouse_pos, ee_dim) THEN <<NoElem, NoElem>>
    ELSE IF ~ is_over(ee_pad_pos, mouse_pos, ee_pad_dim) THEN <<Rect, Rect>>
    ELSE closest_scan(mouse_pos, perc, 0, f64_MAX, Pad)

----------------------------------------------------------------------------
(* Envelope editor: transition table (get_new_state). *)

\* The Clicked element with its stored position refreshed to the mouse.
refreshed(p_elem, m) ==
    IF p_elem.kind = "EnvPoint" THEN EnvPoint(p_elem.idx, m.pos)
    ELSE IF p_elem.kind = "CurvePoint" THEN CurvePoint(p_elem.idx, m.pos)
    ELSE p_elem

ee_get_new_state(is_over_elem, st, m) ==
    LET over == is_over_elem.kind # "None" IN
    IF over /\ st.tag = "Normal" /\ m.left = "Down" /\ m.right = "Up"
        THEN Normal
    ELSE IF over /\ m.left = "Up" /\ m.right = "Up"
        THEN Highlighted(is_over_elem)
    ELSE IF over /\ st.tag = "Highlighted" /\ m.left = "Down" /\ m.right = "Up"
        THEN Clicked(is_over_elem, "Left")
    ELSE IF /\ over /\ st.tag = "Clicked"
            /\ \/ (m.left = "Down" /\ m.right = "Up")
               \/ (m.left = "Up" /\ m.right = "Down")
        THEN Clicked(refreshed(st.elem, m), st.button)
    ELSE IF ~ over /\ st.tag = "Clicked" /\ m.left = "Down" /\ m.right = "Up"
        THEN IF st.button = "Left"
             THEN Clicked(refreshed(st.elem, m), "Left")
             ELSE Clicked(st.elem, "Left")
    ELSE IF over /\ st.tag = "Highlighted" /\ m.left = "Up" /\ m.right = "Down"
        THEN Clicked(refreshed(st.elem, m), "Right")
    ELSE Normal

----------------------------------------------------------------------------
(* Envelope editor: draw. *)

\* get_x_bounds indexes envelope_perc[idx - 1] whenever the Vec is not
\* empty and idx > 0: a Rust panic when idx - 1 is not below its length.
get_x_bounds_panics(envelope_perc, idx) ==
    Len(envelope_perc) > 0 /\ idx > 0 /\ idx - 1 >= Len(envelope_perc)

\* get_x_bounds with the neighbours ignored: the bounds of the whole pad.
get_x_bounds_unbounded(envelope_perc, idx) == <<0, PercUnit>>

\* The left and right X bounds (percentages) for the point at idx.
get_x_bounds(envelope_perc, idx) ==
    LET right_bound == IF Len(envelope_perc) > 0 /\ Len(envelope_perc) - 1 > idx
                       THEN At(envelope_perc, idx + 1).x ELSE PercUnit
        left_bound == IF Len(envelope_perc) > 0 /\ idx > 0
                      THEN At(envelope_perc, idx - 1).x ELSE 0
    IN <<left_bound, right_bound>>

\* draw_env_pt reads (*envelope)[idx]: a Rust panic when idx >= len.
draw_env_pt_panics(envelope, idx) == idx >= Len(envelope)

\* get_new_value with the Y percentage taken top down (no pixel inversion).
get_new_value_no_flip(perc_envelope, idx, mouse_x, mouse_y) ==
    LET mouse_x_clamped == clamp(mouse_x - ee_pad_pos[1], 0, ee_pad_dim[1])
        mouse_y_clamped == clamp(mouse_y - ee_pad_pos[2], 0, ee_pad_dim[2])
        new_x_perc == percentage(mouse_x_clamped, 0, ee_pad_dim[1])
        new_y_perc == percentage(mouse_y_clamped, 0, ee_pad_dim[2])
    IN [x |-> map_range(new_x_perc, 0, PercUnit, min_x, max_x),
        y |-> map_range(new_y_perc, 0, PercUnit, min_y, max_y)]

\* The value under the mouse, X kept between the neighbours of idx.
get_new_value(perc_envelope, idx, mouse_x, mouse_y) ==
    LET mouse_x_on_pad == mouse_x - ee_pad_pos[1]
        mouse_y_on_pad == mouse_y - ee_pad_pos[2]
        mouse_x_clamped == clamp(mouse_x_on_pad, 0, ee_pad_dim[1])
        mouse_y_clamped == clamp(mouse_y_on_pad, 0, ee_pad_dim[2])
        new_x_perc == percentage(mouse_x_clamped, 0, ee_pad_dim[1])
        new_y_perc == percentage(mouse_y_clamped, ee_pad_dim[2], 0)
        bounds == get_x_bounds(perc_envelope, idx)
    IN [x |-> map_range(IF new_x_perc > bounds[2] THEN bounds[2]
                        ELSE IF new_x_perc < bounds[1] THEN bounds[1]
                        ELSE new_x_perc, 0, PercUnit, min_x, max_x),
        y |-> map_range(new_y_perc, 0, PercUnit, min_y, max_y)]

\* The value of a point inserted into a non-empty envelope (no bounds).
new_point_value(mouse_x, mouse_y) ==
    LET mouse_x_on_pad == mouse_x - ee_pad_pos[1]
        mouse_y_on_pad == mouse_y - ee_pad_pos[2]
        mouse_x_clamped == clamp(mouse_x_on_pad, 0, ee_pad_dim[1])
        mouse_y_clamped == clamp(mouse_y_on_pad, 0, ee_pad_dim[2])
        new_x_perc == percentage(mouse_x_clamped, 0, ee_pad_dim[1])
        new_y_perc == percentage(mouse_y_clamped, ee_pad_dim[2], 0)
    IN [x |-> map_range(new_x_perc, 0, PercUnit, min_x, max_x),
        y |-> map_range(new_y_perc, 0, PercUnit, min_y, max_y)]

\* sort_by left out: the pushed point stays at the end.
sort_by_skipped(e) == e

\* Vec::sort_by on get_x: a stable sort, here by insertion from the left.
RECURSIVE sort_by(_)
sort_by(e) ==
    IF Len(e) <= 1 THEN e
    ELSE LET sorted == sort_by(SubSeq(e, 1, Len(e) - 1))
             last == e[Len(e)]
             k == Cardinality({i \in 1..Len(sorted) : sorted[i].x <= last.x})
         IN SubSeq(sorted, 1, k) \o <<last>> \o SubSeq(sorted, k + 1, Len(sorted))

\* Vec::remove(idx).
remove(e, idx) == SubSeq(e, 1, idx) \o SubSeq(e, idx + 2, Len(e))

\* self.env[idx].set_x(new_x); self.env[idx].set_y(new_y).
set_xy(e, idx, v) == [e EXCEPT ![idx + 1] = v]

\* The callback invocations of a frame that calls callback(self.env, idx).
callback(cb, e, idx) == IF cb THEN <<[env |-> e, idx |-> idx]>> ELSE <<>>

NoOp == [kind |-> "none"]

\* is_clicked_env_point: Some(idx) when the element of the new state is an
\* EnvPoint, None (-1) otherwise; the element comes from new_state.
is_clicked_env_point(new_state) ==
    IF new_state.tag \in {"Clicked", "Highlighted"} /\ new_state.elem.kind = "EnvPoint"
    THEN new_state.elem.idx ELSE -1

\* match is_clicked_env_point { Some(idx) => ... }, release arms.
release_point(st, new_state, e, perc, idx, m, cb) ==
    IF st.button = "Left"
    THEN LET v == get_new_value(perc, idx, m.pos[1], m.pos[2])
             e2 == set_xy(e, idx, v)
         IN [env |-> e2, calls |-> callback(cb, e2, idx),
             op |-> [kind |-> "write", idx |-> idx]]
    ELSE LET e2 == remove(e, idx)
         IN [env |-> e2, calls |-> callback(cb, e2, idx),
             op |-> [kind |-> "remove", idx |-> idx]]

\* The (Clicked, Clicked) arm without the comparison with the stored value.
drag_point_always(st, new_state, e, perc, idx, m, cb) ==
    IF st.button = "Left" /\ new_state.button = "Left"
    THEN LET e2 == set_xy(e, idx, get_new_value(perc, idx, m.pos[1], m.pos[2]))
         IN [env |-> e2, calls |-> callback(cb, e2, idx),
             op |-> [kind |-> "write", idx |-> idx]]
    ELSE [env |-> e, calls |-> <<>>, op |-> NoOp]

\* match is_clicked_env_point { Some(idx) => ... }, (Clicked, Clicked) arm.
drag_point(st, new_state, e, perc, idx, m, cb) ==
    IF st.button = "Left" /\ new_state.button = "Left"
    THEN LET v == get_new_value(perc, idx, m.pos[1], m.pos[2])
             e2 == set_xy(e, idx, v)
         IN IF v.x # At(e, idx).x \/ v.y # At(e, idx).y
            THEN [env |-> e2, calls |-> callback(cb, e2, idx),
                  op |-> [kind |-> "write", idx |-> idx]]
            ELSE [env |-> e, calls |-> <<>>, op |-> NoOp]
    ELSE [env |-> e, calls |-> <<>>, op |-> NoOp]

\* Insertion decided on the new state alone: the pad is hovered.
inserts_on_hover(st, new_state) ==
    new_state.tag = "Highlighted" /\ new_state.elem = Pad

\* The (state, new_state) pair on which a point is inserted.
inserts(st, new_state) ==
    /\ st.tag = "Clicked" /\ new_state.tag = "Highlighted"
    /\ st.elem = Pad /\ st.button = "Left"

\* match is_clicked_env_point { None => ... }: click-to-insert.
insert_point(st, new_state, e, perc, m) ==
    IF ~ inserts(st, new_state) THEN [env |-> e, calls |-> <<>>, op |-> NoOp]
    ELSE IF Len(e) = 0
    THEN [env |-> Append(e, get_new_value(perc, 0, m.pos[1], m.pos[2])),
          calls |-> <<>>, op |-> [kind |-> "insert"]]
    ELSE [env |-> sort_by(Append(e, new_point_value(m.pos[1], m.pos[2]))),
          calls |-> <<>>, op |-> [kind |-> "insert"]]

\* The mutation and callback dispatch of draw.
dispatch(st, new_state, e, perc, m, cb) ==
    LET idx == is_clicked_env_point(new_state) IN
    IF idx # -1
    THEN IF st.tag = "Clicked" /\ new_state.tag \in {"Highlighted", "Normal"}
         THEN release_point(st, new_state, e, perc, idx, m, cb)
         ELSE IF st.tag = "Clicked" /\ new_state.tag = "Clicked"
         THEN drag_point(st, new_state, e, perc, idx, m, cb)
         ELSE [env |-> e, calls |-> <<>>, op |-> NoOp]
    ELSE insert_point(st, new_state, e, perc, m)

\* The steps of draw in the order of its statements: get_state (line 312),
\* is_over_and_closest (339), get_new_state (343), the drawing of the
\* rectangle, the label, the lines and the point (346-465), the mutation
\* and the callback of the dispatch (487-587), set_state (590).  A frame
\* that panics does so while it draws the point.
ee_steps(r, panics) ==
    <<"get_state", "hit_test", "get_new_state", "draw">>
    \o (IF panics THEN <<>>
        ELSE (IF r.op.kind # "none" THEN <<"mutate">> ELSE <<>>)
             \o (IF r.calls # <<>> THEN <<"callback">> ELSE <<>>)
             \o <<"set_state">>)

\* A frame panics when the element of the new state is an EnvPoint whose
\* index get_x_bounds or draw_env_pt cannot dereference.
draw_panics(new_state, e, perc) ==
    LET idx == is_clicked_env_point(new_state) IN
    /\ idx # -1
    /\ get_x_bounds_panics(perc, idx) \/ draw_env_pt_panics(e, idx)

----------------------------------------------------------------------------
(* Envelope editor: actions. *)

\* Drawable::draw for EnvelopeEditor.  A frame that indexes a Vec out of
\* bounds panics before any mutation and before set_state; any other frame
\* runs to set_state.
Draw(m) ==
    /\ ~ panicked
    /\ \E perc \in {perc_env(env)} :
       \E over \in {is_over_and_closest(m.pos, perc)} :
       \E new_state \in {ee_get_new_state(over[1], state, m)} :
          IF draw_panics(new_state, env, perc)
          THEN /\ panicked' = TRUE
               /\ calls' = <<>>
               /\ op' = NoOp
               /\ steps' = ee_steps([op |-> NoOp, calls |-> <<>>], TRUE)
               /\ UNCHANGED <<env, state>>
          ELSE \E r \in {dispatch(state, new_state, env, perc, m, maybe_callback)} :
                /\ Len(r.env) <= MaxPts
                /\ env' = r.env
                /\ calls' = r.calls
                /\ op' = r.op
                /\ state' = new_state
                /\ steps' = ee_steps(r, FALSE)
                /\ UNCHANGED panicked
    /\ mouse' = m
    /\ UNCHANGED <<maybe_callback, xyVars, tbVars, drawn>>

\* The owner of the Vec removes a point between two frames.
ExternalRemove(k) ==
    /\ ~ panicked
    /\ env' = remove(env, k)
    /\ UNCHANGED <<state, mouse, calls, op, panicked, maybe_callback, xyVars,
                   tbVars, drawn, steps>>

----------------------------------------------------------------------------
(* XY pad: configuration. *)

xy_pos == <<0, 0>>
xy_pad_w == 100
xy_min_x == 0
xy_max_x == 10
xy_min_y == 0
xy_max_y == 10

\* Frame widths of the two configurations: no frame, and a frame.
XYFrames == {0, 10}

\* self.dim: the pad is xy_pad_w square inside the frame.
xy_dim(frame_w) == <<xy_pad_w + 2 * frame_w, xy_pad_w + 2 * frame_w>>
xy_pad_dim(frame_w) == <<xy_dim(frame_w)[1] - 2 * frame_w, xy_dim(frame_w)[2] - 2 * frame_w>>
xy_pad_pos(frame_w) == <<xy_pos[1] + frame_w, xy_pos[2] + frame_w>>

\* The mouse grid: outside the widget, and four positions on the pad.
XYMousePos == {<<130, 10>>, <<10, 10>>, <<30, 30>>, <<50, 50>>, <<10, 50>>}
XYMouse == [pos : XYMousePos, left : Buttons]

\* The (x, y) values a caller hands to XYPad::new.
XYVals == {5, 9} \X {5, 9}

----------------------------------------------------------------------------
(* XY pad: get_new_state and draw. *)

\* get_new_state without its first arm: a press over the pad clicks it
\* from any state.
xy_get_new_state_press_from_normal(is_over_pad, st, m) ==
    IF is_over_pad /\ m.left = "Down" THEN "Clicked"
    ELSE IF is_over_pad /\ m.left = "Up" THEN "Highlighted"
    ELSE IF ~ is_over_pad /\ st = "Clicked" /\ m.left = "Down" THEN "Clicked"
    ELSE "Normal"

xy_get_new_state(is_over_pad, st, m) ==
    IF is_over_pad /\ st = "Normal" /\ m.left = "Down" THEN "Normal"
    ELSE IF is_over_pad /\ m.left = "Down" THEN "Clicked"
    ELSE IF is_over_pad /\ m.left = "Up" THEN "Highlighted"
    ELSE IF ~ is_over_pad /\ st = "Clicked" /\ m.left = "Down" THEN "Clicked"
    ELSE "Normal"

\* draw: "Determine new values".
xy_new_values(new_state, v, m, frame_w) ==
    IF new_state \in {"Normal", "Highlighted"} THEN v
    ELSE LET pad_pos == xy_pad_pos(frame_w)
             pad_dim == xy_pad_dim(frame_w)
             temp_x == clamp(m.pos[1], pad_pos[1], pad_pos[1] + pad_dim[1])
             temp_y == clamp(m.pos[2], pad_pos[2], pad_pos[2] + pad_dim[2])
         IN <<map_range(temp_x - xy_pos[1], pad_dim[1], 0, xy_min_x, xy_max_x),
              map_range(temp_y - xy_pos[2], pad_dim[2], 0, xy_min_y, xy_max_y)>>

\* The callback on a changed value only.
xy_callback_on_change_only(cb, st, new_state, v, new_v) ==
    IF cb /\ (v[1] # new_v[1] \/ v[2] # new_v[2]) THEN <<new_v>> ELSE <<>>

\* The callback on a changed value and on the press, not on the release.
xy_callback_on_press_only(cb, st, new_state, v, new_v) ==
    IF ~ cb THEN <<>>
    ELSE IF v[1] # new_v[1] \/ v[2] # new_v[2] THEN <<new_v>>
    ELSE IF st = "Highlighted" /\ new_state = "Clicked" THEN <<new_v>>
    ELSE <<>>

\* draw: "Callback if value is changed or the pad is clicked/released".
xy_callback(cb, st, new_state, v, new_v) ==
    IF ~ cb THEN <<>>
    ELSE IF v[1] # new_v[1] \/ v[2] # new_v[2] THEN <<new_v>>
    ELSE IF \/ (st = "Highlighted" /\ new_state = "Clicked")
            \/ (st = "Clicked" /\ new_state = "Highlighted")
         THEN <<new_v>>
         ELSE <<>>

\* The steps of draw in the order of its statements: get_state (line 197),
\* is_over (207), get_new_state (208), the callback (222-234), the drawing
\* of the rectangle, the crosshair, the label and the value (237-278),
\* set_state (280).  The pad writes no value: new_x and new_y are locals.
xy_steps(cs) ==
    <<"get_state", "hit_test", "get_new_state">>
    \o (IF cs # <<>> THEN <<"callback">> ELSE <<>>)
    \o <<"draw", "set_state">>

\* Drawable::draw for XYPad: the caller supplies (x, y), the frame runs.
XYDraw(v, m) ==
    LET is_over_pad == is_over(xy_pad_pos(xyFrame), m.pos, xy_pad_dim(xyFrame))
        new_state == xy_get_new_state(is_over_pad, xyState, m)
        new_v == xy_new_values(new_state, v, m, xyFrame)
    IN /\ xyState' = new_state
       /\ xyPrev' = xyState
       /\ xyPrev2' = xyPrev
       /\ xyVal' = v
       /\ xyValPrev' = xyVal
       /\ xyNew' = new_v
       /\ xyMouse' = m
       /\ xyMousePrev' = xyMouse
       /\ xyCalls' = xy_callback(maybe_callback, xyState, new_state, v, new_v)
       /\ xyCallsPrev' = xyCalls
       /\ steps' = xy_steps(xy_callback(maybe_callback, xyState, new_state, v, new_v))
       /\ UNCHANGED <<xyFrame, maybe_callback, envVars, tbVars, drawn>>

----------------------------------------------------------------------------
(* Text box: configuration. *)

\* Largest length of the text.
MaxLen == 2

tb_pos == <<0, 0>>
tb_dim == <<36, 20>>
tb_frame_w == 2
tb_pad_pos == <<tb_pos[1] + tb_frame_w, tb_pos[2] + tb_frame_w>>
tb_pad_dim == <<tb_dim[1] - 2 * tb_frame_w, tb_dim[2] - 2 * tb_frame_w>>
TEXT_PADDING == 5
text_x == tb_pad_pos[1] + TEXT_PADDING

\* The characters of the model and the strings of at most n of them.
Chars == {"a", "b"}
RECURSIVE Strings(_)
Strings(n) ==
    IF n = 0 THEN {<<>>}
    ELSE Strings(n - 1) \cup
         {Append(s, c) : s \in {t \in Strings(n - 1) : Len(t) = n - 1}, c \in Chars}

\* The mouse grid: outside the widget, on the frame, on the pad left of the
\* text, on the text, and on the pad right of the text.
TBMousePos == {<<50, 10>>, <<1, 10>>, <<5, 10>>, <<14, 10>>, <<30, 10>>}
TBMouse == [pos : TBMousePos, left : Buttons]

\* uic.get_entered_text() and uic.get_pressed_keys() of one frame: nothing,
\* one or two fragments, a fragment of two characters, one edit key, or a
\* fragment together with Return and Right.
TBInputs ==
    {[entered |-> e, keys |-> <<>>] :
        e \in {<<>>, << <<"a">> >>, << <<"b">> >>, << <<"a">>, <<"b">> >>,
               << <<"a", "b">> >>}}
    \cup {[entered |-> <<>>, keys |-> <<k>>] :
            k \in {"Backspace", "Left", "Right", "Return"}}
    \cup {[entered |-> << <<"b">> >>, keys |-> <<"Return", "Right">>]}
    \cup {[entered |-> <<>>, keys |-> <<"Return", "Backspace">>]}

\* What a registered callback does with the &mut String it is given.
Handlers == {"keep", "clear"}

\* The callback behaviours and the builds that a frame with the input inp
\* can tell apart: the callback runs on Return, new_idx -= 1 on Left.
HandlersOf(inp) ==
    IF \E k \in 1..Len(inp.keys) : inp.keys[k] = "Return" THEN Handlers ELSE {"keep"}
BuildsOf(inp) ==
    IF \E k \in 1..Len(inp.keys) : inp.keys[k] = "Left" THEN BOOLEAN ELSE {TRUE}

----------------------------------------------------------------------------
(* Glyph metrics (character cache and label.rs; from their contract). *)

\* uic.get_character_w(font_size, ch): the measured width of a character.
get_character_w(ch) == IF ch = "a" THEN 8 ELSE 12

\* label::width(uic, font_size, text): the summed widths of the characters.
RECURSIVE label_width(_)
label_width(s) ==
    IF Len(s) = 0 THEN 0 ELSE get_character_w(Head(s)) + label_width(Tail(s))

----------------------------------------------------------------------------
(* Text box: types, hit-test and transition table. *)

Nill == [kind |-> "Nill"]
Text(idx, x) == [kind |-> "Text", idx |-> idx, x |-> x]

\* DrawState::Clicked(Element); Normal and Highlighted are shaped as above.
TBClicked(elem) == [tag |-> "Clicked", elem |-> elem]

Uncaptured == [tag |-> "Uncaptured"]
Captured(idx, x) == [tag |-> "Captured", idx |-> idx, x |-> x]

\* struct State(DrawState, Capturing).
TBState(draw, capturing) == [draw |-> draw, cap |-> capturing]

\* The for loop of closest_idx from the character at 0-based index i on.
RECURSIVE closest_idx_loop(_, _, _, _, _, _)
closest_idx_loop(mouse_x, txt, i, x, prev_x, left_x) ==
    IF i >= Len(txt) THEN <<Len(txt), text_x + label_width(txt)>>
    ELSE LET char_w == get_character_w(At(txt, i))
             x2 == x + char_w
             right_x == prev_x + char_w \div 2
         IN IF mouse_x > left_x /\ mouse_x < right_x THEN <<i, prev_x>>
            ELSE closest_idx_loop(mouse_x, txt, i + 1, x2, x2, right_x)

\* closest_idx answering the slot at the end of the text for every mouse.
closest_idx_at_end(mouse_pos, txt) == <<Len(txt), text_x + label_width(txt)>>

\* closest_idx: the cursor slot (index, pixel x) closest to the mouse.
closest_idx(mouse_pos, txt) ==
    IF mouse_pos[1] <= text_x THEN <<0, text_x>>
    ELSE closest_idx_loop(mouse_pos[1], txt, 0, text_x, text_x, text_x)

\* over_elem: the element of the text box under the mouse.
over_elem(mouse_pos, txt) ==
    IF ~ is_over(tb_pos, mouse_pos, tb_dim) THEN Nill
    ELSE IF ~ is_over(tb_pad_pos, mouse_pos, tb_pad_dim) THEN Rect
    ELSE LET c == closest_idx(mouse_pos, txt) IN Text(c[1], c[2])

\* The uncapturing arm matching every Clicked element.
uncaptures_on_any_release(over, prev, m) ==
    over = Nill /\ prev.tag = "Clicked" /\ m.left = "Up"

\* The pattern (Nill, Clicked(Nill), Up) of the Captured match.
uncaptures(over, prev, m) ==
    over = Nill /\ prev = TBClicked(Nill) /\ m.left = "Up"

\* get_new_state: the arms of the two matches in their source order.
tb_get_new_state(over, prev_box_state, m) ==
    LET prev == prev_box_state.draw
        cap == prev_box_state.cap
    IN IF cap.tag = "Uncaptured"
       THEN IF prev.tag = "Normal" /\ m.left = "Down"
                THEN TBState(Normal, Uncaptured)
            ELSE IF over = Nill /\ prev.tag \in {"Normal", "Highlighted"} /\ m.left = "Up"
                THEN TBState(Normal, Uncaptured)
            ELSE IF prev.tag \in {"Normal", "Highlighted"} /\ m.left = "Up"
                THEN TBState(Highlighted(over), Uncaptured)
            ELSE IF prev.tag \in {"Highlighted", "Clicked"} /\ m.left = "Down"
                THEN TBState(TBClicked(prev.elem), Uncaptured)
            ELSE IF /\ over.kind = "Text" /\ prev.tag = "Clicked"
                    /\ prev.elem.kind = "Text" /\ m.left = "Up"
                THEN TBState(Highlighted(over), Captured(over.idx, over.x))
            ELSE IF over = Nill
                THEN TBState(Normal, Uncaptured)
            ELSE prev_box_state
       ELSE IF uncaptures(over, prev, m)
                THEN TBState(Normal, Uncaptured)
            ELSE IF /\ over.kind = "Text" /\ prev.tag = "Clicked"
                    /\ prev.elem.kind = "Text" /\ m.left = "Up"
                THEN TBState(Highlighted(over), Captured(over.idx, over.x))
            ELSE IF m.left = "Up"
                THEN TBState(Highlighted(over), cap)
            ELSE IF prev.tag \in {"Highlighted", "Clicked"} /\ m.left = "Down"
                THEN TBState(TBClicked(prev.elem), cap)
            ELSE prev_box_state

----------------------------------------------------------------------------
(* Text box: draw. *)

\* format!("{}{}{}", &text[..idx], t, &text[idx..]).
splice(txt, idx, t) == SubSeq(txt, 1, idx) \o t \o SubSeq(txt, idx + 1, Len(txt))

\* The text without the character after the cursor instead of before it.
without_char_after(txt, rem_idx, idx) ==
    SubSeq(txt, 1, idx) \o SubSeq(txt, idx + 2, Len(txt))

\* format!("{}{}", &text[..rem_idx], &text[idx..]).
without_char(txt, rem_idx, idx) ==
    SubSeq(txt, 1, rem_idx) \o SubSeq(txt, idx + 1, Len(txt))

\* The right end of the pixels a cursor may advance to.
cursor_limit == tb_pad_pos[1] + tb_pad_dim[1] - TEXT_PADDING

\* The working values of the Captured arm of draw: the text, new_idx,
\* new_cursor_x, the callback invocations, and whether a slice or char_at
\* was out of bounds (a Rust panic, which ends the frame).
Work(txt, new_idx, new_cursor_x, cs, panic) ==
    [text |-> txt, new_idx |-> new_idx, new_cursor_x |-> new_cursor_x,
     calls |-> cs, panic |-> panic]

\* "Check for entered text": the loop over the fragments from the k-th on.
\* The width test reads new_cursor_x; the splice position is idx.
RECURSIVE entered_text_loop(_, _, _, _)
entered_text_loop(entered_text, k, idx, w) ==
    IF k > Len(entered_text) \/ w.panic THEN w
    ELSE LET t == entered_text[k]
             entered_text_width == label_width(t)
         IN IF ~ (w.new_cursor_x + entered_text_width < cursor_limit) THEN w
            ELSE IF idx > Len(w.text)
            THEN Work(w.text, w.new_idx, w.new_cursor_x + entered_text_width,
                      w.calls, TRUE)
            ELSE entered_text_loop(entered_text, k + 1, idx,
                     Work(splice(w.text, idx, t), w.new_idx + Len(t),
                          w.new_cursor_x + entered_text_width, w.calls, FALSE))

\* The text after the callback has run on it.
handled(txt, h) == IF h = "clear" THEN <<>> ELSE txt

\* usize::MAX, what 0 - 1 wraps to in a build without overflow checks: an
\* index above every length, here the largest integer of the checker.
usize_MAX == 2147483647

\* The Left arm moving the index and leaving the cursor pixel where it is.
left_arm_keeps_pixel(idx, w, overflow_checks) ==
    IF idx > 0
    THEN Work(w.text, IF w.new_idx = 0 THEN usize_MAX ELSE w.new_idx - 1,
              w.new_cursor_x, w.calls, w.new_idx = 0 /\ overflow_checks)
    ELSE w

\* The Left arm.  char_at(idx - 1) panics past the end of the text;
\* new_idx -= 1 at 0 panics in a build with overflow checks and wraps in a
\* build without them.
left_arm(idx, w, overflow_checks) ==
    IF idx > 0
    THEN IF idx - 1 >= Len(w.text)
         THEN Work(w.text, w.new_idx, w.new_cursor_x, w.calls, TRUE)
         ELSE Work(w.text,
                   IF w.new_idx = 0 THEN usize_MAX ELSE w.new_idx - 1,
                   w.new_cursor_x - get_character_w(At(w.text, idx - 1)),
                   w.calls, w.new_idx = 0 /\ overflow_checks)
    ELSE w

\* One arm of the match on a pressed key.
key_arm(key, idx, w, cb, h, overflow_checks) ==
    CASE key = "Backspace" ->
            IF Len(w.text) > 0 /\ Len(w.text) >= idx /\ idx > 0
            THEN LET rem_idx == idx - 1
                 IN Work(without_char(w.text, rem_idx, idx), rem_idx,
                         w.new_cursor_x - get_character_w(At(w.text, rem_idx)),
                         w.calls, FALSE)
            ELSE w
      [] key = "Left" -> left_arm(idx, w, overflow_checks)
      [] key = "Right" ->
            IF Len(w.text) > idx
            THEN Work(w.text, w.new_idx + 1,
                      w.new_cursor_x + get_character_w(At(w.text, idx)),
                      w.calls, FALSE)
            ELSE w
      [] key = "Return" ->
            IF Len(w.text) > 0 /\ cb
            THEN LET t2 == handled(w.text, h)
                 IN Work(t2, IF w.new_idx < Len(t2) THEN w.new_idx ELSE Len(t2),
                         text_x + label_width(t2),
                         Append(w.calls, w.text), FALSE)
            ELSE w
      [] OTHER -> w

\* The working values w with the steps st taken so far in the Captured arm.
Stepped(w, st) ==
    [text |-> w.text, new_idx |-> w.new_idx, new_cursor_x |-> w.new_cursor_x,
     calls |-> w.calls, panic |-> w.panic, steps |-> st]

\* The steps of "Check for entered text" from the k-th fragment on: one
\* write of the text for every fragment the loop has spliced in, which are
\* the leading fragments that make up the n characters the text has grown by.
RECURSIVE entered_text_steps(_, _, _)
entered_text_steps(entered_text, k, n) ==
    IF k > Len(entered_text) \/ n <= 0 THEN <<>>
    ELSE <<"mutate">>
         \o entered_text_steps(entered_text, k + 1, n - Len(entered_text[k]))

\* The step of one arm of the match on a pressed key that has taken w to
\* w2: the Return arm invokes the callback, the Backspace arm writes the text.
key_steps(w, w2) ==
    IF Len(w2.calls) > Len(w.calls) THEN <<"callback">>
    ELSE IF w2.text # w.text THEN <<"mutate">>
    ELSE <<>>

\* "Check for control keys": the loop over the pressed keys from the k-th on.
RECURSIVE pressed_keys_loop(_, _, _, _, _, _, _)
pressed_keys_loop(pressed_keys, k, idx, w, cb, h, overflow_checks) ==
    IF k > Len(pressed_keys) \/ w.panic THEN w
    ELSE LET w2 == key_arm(pressed_keys[k], idx, w, cb, h, overflow_checks)
         IN pressed_keys_loop(pressed_keys, k + 1, idx,
                              Stepped(w2, w.steps \o key_steps(w, w2)),
                              cb, h, overflow_checks)

\* The Captured(idx, cursor_x) arm of draw.
captured_arm(txt, idx, cursor_x, inp, cb, h, overflow_checks) ==
    LET w == entered_text_loop(inp.entered, 1, idx,
                               Work(txt, idx, cursor_x, <<>>, FALSE))
    IN pressed_keys_loop(inp.keys, 1, idx,
           Stepped(w, entered_text_steps(inp.entered, 1, Len(w.text) - Len(txt))),
           cb, h, overflow_checks)

\* The steps of draw in the order of its statements: get_state (line 265),
\* over_elem (281), get_new_state (284), the drawing of the rectangle, the
\* text and the cursor (286-295), the writes and callbacks of the Captured
\* arm (299-375), set_state (381), which a panicking frame does not reach.
tb_steps(arm_steps, panics) ==
    <<"get_state", "hit_test", "get_new_state", "draw">>
    \o arm_steps
    \o (IF panics THEN <<>> ELSE <<"set_state">>)

\* draw taking the Capturing match on the state read by get_state instead
\* of on new_state.
TBDraw_on_read_state(m, inp, h, overflow_checks) ==
    /\ ~ tbPanicked
    /\ \E over \in {over_elem(m.pos, text)} :
       \E new_state \in {tb_get_new_state(over, tbState, m)} :
          IF tbState.cap.tag = "Uncaptured"
          THEN /\ tbState' = new_state
               /\ tbCalls' = <<>>
               /\ steps' = tb_steps(<<>>, FALSE)
               /\ UNCHANGED <<text, tbPanicked>>
          ELSE \E w \in {captured_arm(text, tbState.cap.idx, tbState.cap.x,
                                      inp, maybe_callback, h, overflow_checks)} :
                /\ Len(w.text) <= MaxLen
                /\ text' = w.text
                /\ tbCalls' = w.calls
                /\ tbPanicked' = w.panic
                /\ steps' = tb_steps(w.steps, w.panic)
                /\ tbState' = IF w.panic THEN tbState
                              ELSE IF new_state.cap.tag = "Uncaptured" THEN new_state
                              ELSE TBState(new_state.draw,
                                           Captured(w.new_idx, w.new_cursor_x))
    /\ tbMouse' = m
    /\ tbInput' = inp
    /\ UNCHANGED <<maybe_callback, envVars, xyVars, drawn>>

\* Drawable::draw for TextBox.  A frame that slices the text out of bounds
\* panics before set_state, with the edits made so far left in the text.
TBDraw(m, inp, h, overflow_checks) ==
    /\ ~ tbPanicked
    /\ \E over \in {over_elem(m.pos, text)} :
       \E new_state \in {tb_get_new_state(over, tbState, m)} :
          IF new_state.cap.tag = "Uncaptured"
          THEN /\ tbState' = new_state
               /\ tbCalls' = <<>>
               /\ steps' = tb_steps(<<>>, FALSE)
               /\ UNCHANGED <<text, tbPanicked>>
          ELSE \E w \in {captured_arm(text, new_state.cap.idx, new_state.cap.x,
                                      inp, maybe_callback, h, overflow_checks)} :
                /\ Len(w.text) <= MaxLen
                /\ text' = w.text
                /\ tbCalls' = w.calls
                /\ tbPanicked' = w.panic
                /\ steps' = tb_steps(w.steps, w.panic)
                /\ tbState' = IF w.panic THEN tbState
                              ELSE TBState(new_state.draw,
                                           Captured(w.new_idx, w.new_cursor_x))
    /\ tbMouse' = m
    /\ tbInput' = inp
    /\ UNCHANGED <<maybe_callback, envVars, xyVars, drawn>>

----------------------------------------------------------------------------
(* Specifications. *)

\* The sorted envelopes of at most n points on the value grid.
RECURSIVE Envelopes(_)
Envelopes(n) ==
    IF n = 0 THEN {<<>>}
    ELSE Envelopes(n - 1) \cup
         {Append(e, p) : e \in {f \in Envelopes(n - 1) : Len(f) = n - 1}, p \in Points}

SortedEnvelopes == {e \in Envelopes(MaxPts) : IsSorted(e)}

NoMouse == [pos |-> <<0, 24>>, left |-> "Up", right |-> "Up"]
TBNoMouse == [pos |-> <<50, 10>>, left |-> "Up"]
NoInput == [entered |-> <<>>, keys |-> <<>>]

\* The TextBox variables before any TextBox frame, for the text t.
TBIdle(t) ==
    /\ text = t
    /\ tbState = TBState(Normal, Uncaptured)
    /\ tbMouse = TBNoMouse /\ tbInput = NoInput
    /\ tbCalls = <<>> /\ tbPanicked = FALSE
XYNoMouse == [pos |-> <<130, 10>>, left |-> "Up"]

\* The XYPad variables before any XYPad frame.
XYIdle ==
    /\ xyState = "Normal" /\ xyPrev = "Normal" /\ xyPrev2 = "Normal"
    /\ xyVal = <<5, 5>> /\ xyValPrev = <<5, 5>> /\ xyNew = <<5, 5>>
    /\ xyMouse = XYNoMouse /\ xyMousePrev = XYNoMouse
    /\ xyCalls = <<>> /\ xyCallsPrev = <<>>

\* The envelope editor variables before any frame, for the envelope e.
EnvIdle(e) ==
    /\ env = e
    /\ state = Normal
    /\ mouse = NoMouse
    /\ calls = <<>> /\ op = NoOp
    /\ panicked = FALSE

\* Envelope editor: the caller owns a sorted envelope; the widget state is
\* the default Widget::EnvelopeEditor(State::Normal).
Init ==
    /\ \E e \in SortedEnvelopes : EnvIdle(e)
    /\ maybe_callback = TRUE
    /\ XYIdle /\ xyFrame = 0
    /\ TBIdle(<<>>) /\ drawn = "EnvelopeEditor" /\ steps = <<>>

Next == \E m \in Mouse : Draw(m)

\* Frames of the envelope editor; nothing else touches the envelope.
Spec == Init /\ [][Next]_vars

NextExt ==
    \/ \E m \in Mouse : Draw(m)
    \/ \E k \in 0..(Len(env) - 1) : ExternalRemove(k)

\* Frames of the envelope editor, the owner removing points in between.
SpecExt == Init /\ [][NextExt]_vars

XYInit ==
    /\ EnvIdle(<<>>)
    /\ maybe_callback \in BOOLEAN
    /\ XYIdle /\ xyFrame \in XYFrames
    /\ TBIdle(<<>>) /\ drawn = "XYPad" /\ steps = <<>>

XYNext == \E v \in XYVals, m \in XYMouse : XYDraw(v, m)

\* Frames of the XY pad.
SpecXY == XYInit /\ [][XYNext]_vars

\* Text box: the caller owns a text that fits the field; the widget state
\* is the default Widget::TextBox(State(Normal, Uncaptured)).
TBInit ==
    /\ EnvIdle(<<>>)
    /\ maybe_callback \in BOOLEAN
    /\ XYIdle /\ xyFrame = 0
    /\ \E t \in Strings(MaxLen) : text_x + label_width(t) < cursor_limit /\ TBIdle(t)
    /\ drawn = "TextBox" /\ steps = <<>>

\* A frame in which the pointer has moved or a button has changed, with no
\* keyboard input.
TBPointerFrame == \E m \in TBMouse : TBDraw(m, NoInput, "keep", TRUE)

\* A frame with keyboard input, the pointer left as it was.
TBKeyboardFrame ==
    \E inp \in TBInputs \ {NoInput} :
        \E h \in HandlersOf(inp), overflow_checks \in BuildsOf(inp) :
            TBDraw(tbMouse, inp, h, overflow_checks)

TBNext == TBPointerFrame \/ TBKeyboardFrame

\* Frames of the text box.
SpecTB == TBInit /\ [][TBNext]_vars

\* The keyboard inputs of the frames in which the pointer acts as well:
\* nothing, a fragment, Backspace, Return, or a fragment with Return and Right.
TBMixedInputs ==
    {NoInput, [entered |-> << <<"a">> >>, keys |-> <<>>],
     [entered |-> <<>>, keys |-> <<"Backspace">>],
     [entered |-> <<>>, keys |-> <<"Return">>],
     [entered |-> << <<"b">> >>, keys |-> <<"Return", "Right">>]}

\* A frame with any pointer and any of these keyboard inputs at once.
TBMixedFrame ==
    \E m \in TBMouse, inp \in TBMixedInputs :
        \E h \in HandlersOf(inp), overflow_checks \in BuildsOf(inp) :
            TBDraw(m, inp, h, overflow_checks)

\* Frames of the text box in which pointer and keyboard act together.
SpecTBMixed == TBInit /\ [][TBMixedFrame]_vars

InitAll == Init \/ XYInit \/ TBInit

NextAll ==
    \/ drawn = "EnvelopeEditor" /\ Next
    \/ drawn = "XYPad" /\ XYNext
    \/ drawn = "TextBox" /\ TBNext

\* Frames of any one of the three widgets.
SpecAll == InitAll /\ [][NextAll]_vars

----------------------------------------------------------------------------
(* Envelope editor: properties. *)

\* The persisted state st holds an EnvPoint captured with the button b.
ClickedPoint(st, b) ==
    st.tag = "Clicked" /\ st.elem.kind = "EnvPoint" /\ st.button = b

\* The value draw computes for the point idx of e from the mouse m.
ValueAt(e, idx, m) == get_new_value(perc_env(e), idx, m.pos[1], m.pos[2])

\* The pixel position on the pad of the point i of the envelope e.
PixelOf(e, i) ==
    p_pos([x |-> percentage(At(e, i).x, min_x, max_x),
           y |-> percentage(At(e, i).y, min_y, max_y)])

\* The squared pixel distance from the mouse of the last frame to the point i.
DistanceTo(i) == distance(mouse.pos, PixelOf(env, i))

\* The point i lies within the radius of the mouse of the last frame.
Within(i) == DistanceTo(i) <= pt_radius * pt_radius

\* C1: no frame indexes the envelope, or its percentage copy, at a position
\* not below its length, also when the owner has removed points between
\* two frames while the persisted state still names an EnvPoint index.
C1_NoIndexOutOfBounds == ~ panicked

\* C2: a frame that takes Clicked(EnvPoint(i), Left) to Highlighted or to
\* Normal writes the value computed from the mouse to the point i and then
\* invokes the callback with the envelope and i.
C2_LeftReleaseWritesAndCalls ==
    [][(ClickedPoint(state, "Left") /\ state'.tag \in {"Highlighted", "Normal"})
       => /\ env' = set_xy(env, state.elem.idx, ValueAt(env, state.elem.idx, mouse'))
          /\ calls' = <<[env |-> env', idx |-> state.elem.idx]>>]_vars

\* C3: a frame that takes Clicked(EnvPoint(i), Right) to Highlighted or to
\* Normal removes exactly the point i and then invokes the callback once
\* with the shrunken envelope and i.
C3_RightReleaseRemovesAndCalls ==
    [][(ClickedPoint(state, "Right") /\ state'.tag \in {"Highlighted", "Normal"})
       => /\ env' = remove(env, state.elem.idx)
          /\ calls' = <<[env |-> env', idx |-> state.elem.idx]>>]_vars

LeftX(e, idx) == IF idx = 0 THEN min_x ELSE At(e, idx - 1).x
RightX(e, idx) == IF idx = Len(e) - 1 THEN max_x ELSE At(e, idx + 1).x

\* C5: whenever a frame writes a new X to the point i, during a drag or on
\* release, the written X lies between the X of the point i-1 (min_x for
\* the first point) and the X of the point i+1 (max_x for the last).
C5_NeighbourClamp ==
    [][op'.kind = "write"
       => /\ LeftX(env, op'.idx) <= At(env', op'.idx).x
          /\ At(env', op'.idx).x <= RightX(env, op'.idx)]_vars

\* C5 witness: the middle point of three was dragged with the mouse right
\* of its right neighbour and stopped at the neighbour's X.
C5_Witness ==
    /\ Len(env) = 3 /\ op = [kind |-> "write", idx |-> 1]
    /\ ClickedPoint(state, "Left")
    /\ new_point_value(mouse.pos[1], mouse.pos[2]).x > env[3].x
    /\ env[2].x = env[3].x /\ env[1].x < env[2].x

\* C6: a frame that inserts a point into an envelope sorted by X leaves an
\* envelope with exactly one more point, sorted by X.
C6_InsertKeepsSorted ==
    [][(op'.kind = "insert" /\ IsSorted(env))
       => (Len(env') = Len(env) + 1 /\ IsSorted(env'))]_vars

\* C6 witness: a point was inserted in front of a point of greater X.
C6_Witness ==
    /\ op.kind = "insert" /\ Len(env) >= 2
    /\ env[1] = new_point_value(mouse.pos[1], mouse.pos[2])
    /\ env[1].x < env[2].x

\* The linear map of a pad pixel onto the value ranges, Y inverted.
LinearValue(pos) ==
    [x |-> min_x + ((pos[1] - ee_pad_pos[1]) * (max_x - min_x)) \div ee_pad_dim[1],
     y |-> min_y + ((ee_pad_pos[2] + ee_pad_dim[2] - pos[2]) * (max_y - min_y))
                       \div ee_pad_dim[2]]

\* C7: with no points, a release over the pad of a left press that began on
\* the pad inserts exactly one point, the linear map of the release pixel
\* onto [min_x, max_x] and, inverted, onto [min_y, max_y].
C7_InsertIntoEmpty ==
    [][(/\ Len(env) = 0 /\ state = Clicked(Pad, "Left")
        /\ state'.tag = "Highlighted"
        /\ is_over(ee_pad_pos, mouse'.pos, ee_pad_dim))
       => env' = <<LinearValue(mouse'.pos)>>]_vars

\* C7 witness: the release at the centre of the pad inserted the centre of
\* the value ranges.
C7_Witness ==
    /\ op.kind = "insert" /\ mouse.pos = <<88, 88>>
    /\ env = <<[x |-> 2, y |-> 2]>>

\* C8: a frame whose previous state is not Clicked leaves the envelope as
\* it was and does not invoke the callback.
C8_NoMutationUnlessClicked ==
    [][state.tag # "Clicked" => (env' = env /\ calls' = <<>>)]_vars

\* C8 witness: a frame with the left button held over the widget ran from
\* Normal; it changed nothing.
C8_Witness ==
    /\ state = Normal /\ mouse.left = "Down" /\ mouse.right = "Up"
    /\ is_over(ee_pad_pos, mouse.pos, ee_pad_dim)
    /\ Len(env) > 0 /\ calls = <<>>

----------------------------------------------------------------------------
(* XY pad: properties. *)

\* C9: with a callback registered, a frame invokes it if and only if the
\* value computed for the frame differs from the caller's (x, y) or the
\* frame takes Highlighted to Clicked or Clicked to Highlighted; it is
\* invoked at most once, with the computed value.
C9_CallbackIffChangedOrBoundary ==
    maybe_callback
    => /\ Len(xyCalls) <= 1
       /\ xyCalls # <<>>
             <=> \/ xyNew # xyVal
                 \/ (xyPrev = "Highlighted" /\ xyState = "Clicked")
                 \/ (xyPrev = "Clicked" /\ xyState = "Highlighted")
       /\ xyCalls # <<>> => xyCalls = <<xyNew>>

\* C9 witness: a press that left the value as it was invoked the callback.
C9_Witness ==
    /\ maybe_callback /\ xyPrev = "Highlighted" /\ xyState = "Clicked"
    /\ xyNew = xyVal /\ xyCalls = <<xyNew>>

\* The last two frames were a press and a release over the pad with the
\* mouse at one position and the pressed value equal to the caller's.
ClickWithoutMove ==
    /\ maybe_callback
    /\ xyPrev2 = "Highlighted" /\ xyPrev = "Clicked" /\ xyState = "Highlighted"
    /\ xyMouse.pos = xyMousePrev.pos
    /\ xy_new_values("Clicked", xyValPrev, xyMousePrev, xyFrame) = xyValPrev
    /\ xyNew = xyVal

\* C10 (as amended): over Highlighted -> Clicked -> Highlighted with the
\* mouse stationary and the value unchanged, the callback is invoked once
\* in the press frame and once in the release frame, twice in total.
C10_ClickWithoutMoveFiresTwice ==
    ClickWithoutMove => (Len(xyCallsPrev) = 1 /\ Len(xyCalls) = 1)

\* C10 witness: a click without a move has happened.
C10_Witness == ClickWithoutMove /\ xyCallsPrev = <<xyValPrev>> /\ xyCalls = <<xyVal>>

\* C10 as stated: over that frame sequence the callback is invoked exactly
\* once in total.
C10_ClickWithoutMoveFiresOnce ==
    ClickWithoutMove => Len(xyCallsPrev) + Len(xyCalls) = 1

\* The last two frames were frames of one left drag over the pad without a
\* frame, the mouse having moved right and down, and each has invoked the
\* callback.
DragRightAndDown ==
    /\ maybe_callback /\ xyFrame = 0
    /\ xyPrev = "Clicked" /\ xyState = "Clicked"
    /\ xyMousePrev.pos[1] < xyMouse.pos[1] /\ xyMousePrev.pos[2] < xyMouse.pos[2]
    /\ xyCallsPrev # <<>> /\ xyCalls # <<>>

\* C11: on the 100 x 100 pad without a frame mapped to [0, 10] x [0, 10], a
\* left drag whose mouse moves from pixel (10, 10) towards pixel (50, 50)
\* reports a strictly greater X and a strictly greater Y in each frame than
\* in the frame before, and reports (5, 5) at pixel (50, 50).
C11_DragReportsIncreasingValues ==
    DragRightAndDown
    => /\ xyCallsPrev[1][1] < xyCalls[1][1]
       /\ xyCallsPrev[1][2] < xyCalls[1][2]
       /\ xyMouse.pos = <<50, 50>> => xyCalls[1] = <<5, 5>>

----------------------------------------------------------------------------
(* Text box: properties. *)

\* The frame's keyboard input is inp and its pointer is where it was.
OnlyInput(inp) == tbInput' = inp /\ tbMouse' = tbMouse

\* The keyboard input of a single pressed key.
Key(k) == [entered |-> <<>>, keys |-> <<k>>]

\* The persisted state is Captured.
IsCaptured(st) == st.cap.tag = "Captured"

\* C12: while Captured at the index i with 0 < i <= Len(text), a frame
\* whose only input is Backspace removes exactly the character at i - 1,
\* sets the index to i - 1 and moves the cursor pixel left by the measured
\* width of the removed character; at i = 0 text and cursor stay.
C12_Backspace ==
    [][(IsCaptured(tbState) /\ OnlyInput(Key("Backspace")))
       => LET i == tbState.cap.idx
              x == tbState.cap.x
          IN /\ ~ tbPanicked'
             /\ (0 < i /\ i <= Len(text))
                   => /\ text' = SubSeq(text, 1, i - 1) \o SubSeq(text, i + 1, Len(text))
                      /\ tbState'.cap = Captured(i - 1, x - get_character_w(text[i]))
             /\ i = 0 => (text' = text /\ tbState'.cap = tbState.cap)]_vars

\* C12 witness: Backspace has removed the "a" of "ab" at the index 1.  The
\* hovered slot of the frame, hit-tested on the text as it was before the
\* frame, lies behind an "a".
C12_Witness ==
    /\ tbInput = Key("Backspace")
    /\ tbState.draw = Highlighted(Text(1, text_x + get_character_w("a")))
    /\ text = <<"b">>
    /\ tbState.cap = Captured(0, text_x)

\* The fragments of an input joined in the order they were committed.
RECURSIVE joined(_)
joined(ts) == IF Len(ts) = 0 THEN <<>> ELSE Head(ts) \o joined(Tail(ts))

\* The frame's only input is entered text, one fragment or more.
OnlyEnteredText ==
    /\ tbInput'.keys = <<>> /\ tbInput'.entered # <<>>
    /\ tbMouse' = tbMouse

\* C13: while Captured at the index i, a frame that commits the fragments
\* t1 .. tn, all of them within the width budget, leaves the text
\* old[0..i] + t1 + ... + tn + old[i..], the index i + len(t1 .. tn) and the
\* cursor pixel advanced by the measured width of t1 .. tn.
C13_InsertAtCursor ==
    [][(/\ IsCaptured(tbState) /\ OnlyEnteredText
        /\ tbState.cap.idx <= Len(text)
        /\ tbState.cap.x + label_width(joined(tbInput'.entered)) < cursor_limit)
       => LET i == tbState.cap.idx
              t == joined(tbInput'.entered)
          IN /\ text' = SubSeq(text, 1, i) \o t \o SubSeq(text, i + 1, Len(text))
             /\ tbState'.cap = Captured(i + Len(t), tbState.cap.x + label_width(t))]_vars

\* The text ends inside the interior of the field less the text padding.
Fits(txt) == text_x + label_width(txt) <= cursor_limit

\* C14: a text that fits the interior width of the field (less the text
\* padding) before a frame fits it after the frame, whatever the cursor
\* index and the committed fragments; a fragment whose insertion would make
\* the text overflow is rejected whole, text and cursor staying as they are.
C14_WidthBudget ==
    [][(IsCaptured(tbState) /\ OnlyEnteredText /\ Fits(text))
       => /\ Fits(text')
          /\ (/\ Len(tbInput'.entered) = 1
              /\ ~ Fits(text \o tbInput'.entered[1]))
                => (text' = text /\ tbState'.cap = tbState.cap)]_vars

\* C15: while Captured at the index i, a frame whose only input is Left
\* sets the index to i - 1 when i > 0 and changes nothing at i = 0; one
\* whose only input is Right sets it to i + 1 when i < Len(text) and
\* changes nothing at the end; the cursor pixel moves by the measured width
\* of the character crossed, and the text stays.
C15_LeftRight ==
    [][LET i == tbState.cap.idx
           x == tbState.cap.x
       IN /\ (IsCaptured(tbState) /\ i <= Len(text) /\ OnlyInput(Key("Left")))
                => /\ ~ tbPanicked' /\ text' = text
                   /\ tbState'.cap = IF i > 0
                                     THEN Captured(i - 1, x - get_character_w(text[i]))
                                     ELSE tbState.cap
          /\ (IsCaptured(tbState) /\ i <= Len(text) /\ OnlyInput(Key("Right")))
                => /\ ~ tbPanicked' /\ text' = text
                   /\ tbState'.cap = IF i < Len(text)
                                     THEN Captured(i + 1, x + get_character_w(text[i + 1]))
                                     ELSE tbState.cap]_vars

\* C15 witness: Left has taken the cursor from behind the "b" of "ab" to
\* in front of it (a Left frame ends at an index above 0 only by moving).
C15_Witness ==
    /\ tbInput = Key("Left") /\ text = <<"a", "b">>
    /\ tbState.cap = Captured(1, text_x + get_character_w("a"))

\* The frame's pressed keys contain Return and its pointer is where it was.
ContainsReturn ==
    /\ \E k \in 1..Len(tbInput'.keys) : tbInput'.keys[k] = "Return"
    /\ tbMouse' = tbMouse

\* C16: while Captured with a callback registered, a frame that contains
\* Return invokes the callback exactly once, with the current text, and the
\* index persisted by the frame is at most the length of the text as the
\* callback has left it.
C16_ReturnInvokesAndClamps ==
    [][(IsCaptured(tbState) /\ maybe_callback /\ ContainsReturn)
       => /\ Len(tbCalls') = 1
          /\ tbInput'.entered = <<>> => tbCalls' = <<text>>
          /\ IsCaptured(tbState') /\ tbState'.cap.idx <= Len(text')]_vars

\* The pixel x of the cursor slot i of txt, and of the middle of its i-th
\* character (1-based).
SlotX(txt, i) == text_x + label_width(SubSeq(txt, 1, i))
MidX(txt, i) == SlotX(txt, i - 1) + get_character_w(txt[i]) \div 2

\* The cursor slot of txt that a pointer at the pixel mx selects: the slot
\* in front of the first character whose middle lies right of mx; the slot
\* at the end of the text when there is none, or when mx is exactly the
\* middle of a character.
SlotOf(txt, mx) ==
    IF mx <= text_x THEN 0
    ELSE IF \E i \in 1..Len(txt) : MidX(txt, i) = mx THEN Len(txt)
    ELSE Cardinality({i \in 1..Len(txt) : MidX(txt, i) < mx})

\* The persisted draw state is Clicked on the text: a left press began
\* while the text area was highlighted.
PressedOnText(st) == st.draw.tag = "Clicked" /\ st.draw.elem.kind = "Text"

\* C17: from an Uncaptured or a Captured state, when a left press that
\* began while the text area was highlighted is released with the pointer
\* over the text area, the frame (without keyboard input) yields
\* Captured(idx, x), the cursor slot hit-tested at the release position.
C17_ClickCaptures ==
    [][(/\ PressedOnText(tbState)
        /\ tbMouse'.left = "Up" /\ is_over(tb_pad_pos, tbMouse'.pos, tb_pad_dim)
        /\ tbInput' = NoInput)
       => LET i == SlotOf(text, tbMouse'.pos[1])
          IN tbState'.cap = Captured(i, SlotX(text, i))]_vars

\* C17 witness: a click on the text "ab" with the pointer between the
\* middles of its two characters has captured the field at the slot 1.
C17_Witness ==
    /\ text = <<"a", "b">> /\ tbInput = NoInput
    /\ tbMouse = [pos |-> <<14, 10>>, left |-> "Up"]
    /\ tbState = TBState(Highlighted(Text(1, text_x + get_character_w("a"))),
                         Captured(1, text_x + get_character_w("a")))

\* The pointer of the frame is outside the widget.
PointerOutside == ~ is_over(tb_pos, tbMouse'.pos, tb_dim)

\* C18 (as amended): a Captured field stays Captured in every frame,
\* whatever the pointer is over, except that it becomes Uncaptured exactly
\* in a frame where the left button is Up and the pointer is outside the
\* widget after a press that began with the pointer outside the widget
\* (the persisted draw state is Clicked(Nill)).
C18_UncapturedByClickOutside ==
    [][IsCaptured(tbState)
       => (tbState'.cap = Uncaptured
             <=> /\ tbState.draw = TBClicked(Nill)
                 /\ tbMouse'.left = "Up" /\ PointerOutside)]_vars

\* C18 witness: the field is Uncaptured again after a click outside the
\* widget; its text, wider than any text the field starts with, was typed
\* while it was Captured.
C18_Witness ==
    /\ tbState = TBState(Normal, Uncaptured)
    /\ text = <<"b", "b">>
    /\ tbMouse = TBNoMouse

\* C18 as stated: a Captured field becomes Uncaptured exactly in a frame
\* where the left button is Up after a held press and the pointer is
\* outside the widget.
C18_UncapturedByReleaseOutside ==
    [][IsCaptured(tbState)
       => (tbState'.cap = Uncaptured
             <=> /\ tbState.draw.tag = "Clicked"
                 /\ tbMouse'.left = "Up" /\ PointerOutside)]_vars

----------------------------------------------------------------------------
(* The three widgets: properties of the transition tables. *)

\* The element under the mouse of the envelope editor frame.
EnvOver == is_over_and_closest(mouse'.pos, perc_env(env))[1]

\* The element under the mouse of the text box frame.
TBOver == over_elem(tbMouse'.pos, text)

\* C19: in each widget, a frame with the pointer over an element E and all
\* buttons Up yields Highlighted(E) from any persisted state, so that the
\* same input yields the same Highlighted(E) in every following frame.
C19_HoverYieldsHighlighted ==
    [][/\ (/\ drawn = "EnvelopeEditor" /\ ~ panicked'
           /\ mouse'.left = "Up" /\ mouse'.right = "Up" /\ EnvOver # NoElem)
             => state' = Highlighted(EnvOver)
       /\ (/\ drawn = "XYPad" /\ xyMouse'.left = "Up"
           /\ is_over(xy_pad_pos(xyFrame), xyMouse'.pos, xy_pad_dim(xyFrame)))
             => xyState' = "Highlighted"
       /\ (/\ drawn = "TextBox" /\ ~ tbPanicked'
           /\ tbMouse'.left = "Up" /\ TBOver # Nill)
             => tbState'.draw = Highlighted(TBOver)]_vars

\* C20: in each widget a Clicked state is entered only from a Highlighted
\* or a Clicked state, and from Normal every frame with a button Down
\* leaves the state Normal: a button already held when the pointer enters
\* clicks nothing.
C20_PressStartsFromHover ==
    [][/\ drawn = "EnvelopeEditor"
             => /\ state'.tag = "Clicked" => state.tag \in {"Highlighted", "Clicked"}
                /\ (/\ state = Normal
                    /\ mouse'.left = "Down" \/ mouse'.right = "Down")
                      => state' = Normal
       /\ drawn = "XYPad"
             => /\ xyState' = "Clicked" => xyState \in {"Highlighted", "Clicked"}
                /\ (xyState = "Normal" /\ xyMouse'.left = "Down")
                      => xyState' = "Normal"
       /\ drawn = "TextBox"
             => /\ tbState'.draw.tag = "Clicked"
                      => tbState.draw.tag \in {"Highlighted", "Clicked"}
                /\ (tbState.draw = Normal /\ tbMouse'.left = "Down")
                      => tbState'.draw = Normal]_vars

\* C20 witness: a frame of the text box with the left button Down and the
\* pointer over the text has run from Normal and has left the state Normal.
C20_Witness ==
    /\ drawn = "TextBox"
    /\ tbMouse = [pos |-> <<14, 10>>, left |-> "Down"]
    /\ tbState = TBState(Normal, Uncaptured)

\* C24: every value the XY pad passes to the callback lies within
\* [min_x, max_x] x [min_y, max_y], wherever the pointer is, inside or
\* outside the pad, and for every frame width.
C24_CallbackValueInRange ==
    \A i \in 1..Len(xyCalls) :
        /\ xy_min_x <= xyCalls[i][1] /\ xyCalls[i][1] <= xy_max_x
        /\ xy_min_y <= xyCalls[i][2] /\ xyCalls[i][2] <= xy_max_y

----------------------------------------------------------------------------
(* Gestures: properties. *)

\* The button that captured the Clicked state st is Down in the mouse m.
CapturingButtonDown(st, m) ==
    IF st.button = "Left" THEN m.left = "Down" ELSE m.right = "Down"

\* C21: in each widget, a frame that starts in a Clicked state and sees the
\* capturing button Down, whether the pointer is over the widget or not,
\* ends in a Clicked state; the state leaves Clicked only in a frame that
\* sees the capturing button Up.
C21_DragPersistence ==
    [][/\ (drawn = "EnvelopeEditor" /\ state.tag = "Clicked")
             => (CapturingButtonDown(state, mouse') => state'.tag = "Clicked")
       /\ (drawn = "XYPad" /\ xyState = "Clicked")
             => (xyMouse'.left = "Down" => xyState' = "Clicked")
       /\ (drawn = "TextBox" /\ tbState.draw.tag = "Clicked")
             => (tbMouse'.left = "Down" => tbState'.draw.tag = "Clicked")]_vars

\* C22: in the envelope editor, whenever a frame starts in a Clicked state
\* and ends in a Clicked state, the two states carry the same mouse button:
\* a gesture captured with one button never becomes Clicked with the other.
C22_ClickedKeepsButton ==
    [][(state.tag = "Clicked" /\ state'.tag = "Clicked")
       => state'.button = state.button]_vars

----------------------------------------------------------------------------
(* Frames: properties. *)

\* The place of a step in the order read persisted state, hit-test, compute
\* next state, mutate value(s), invoke handler, persist next state, draw.
StepRank(s) ==
    CASE s = "get_state" -> 1
      [] s = "hit_test" -> 2
      [] s = "get_new_state" -> 3
      [] s = "mutate" -> 4
      [] s = "callback" -> 5
      [] s = "set_state" -> 6
      [] s = "draw" -> 7

\* C23: in every frame of every widget that runs to its end, the steps are
\* taken in the order read persisted state, hit-test, compute next state,
\* mutate value(s), invoke handler, persist next state, draw: no step is
\* taken after a step of a later place, so that the handler is invoked
\* after all writes of the frame, and the next state is persisted exactly
\* once.
C23_FrameOrder ==
    (steps # <<>> /\ ~ panicked /\ ~ tbPanicked)
    => /\ \A i, j \in 1..Len(steps) :
             i < j => StepRank(steps[i]) <= StepRank(steps[j])
       /\ Cardinality({i \in 1..Len(steps) : steps[i] = "set_state"}) = 1

----------------------------------------------------------------------------
(* Envelope editor: further properties. *)

ClickedIndexed(st) ==
    st.tag = "Clicked" /\ st.elem.kind \in {"EnvPoint", "CurvePoint"}

\* C26: a frame that runs to its end from a Clicked state on EnvPoint(i) or
\* CurvePoint(i) to a Clicked state keeps the kind of the element and the
\* index i, and stores the pointer position of the frame as the pixel
\* position of the element.
C26_ClickedKeepsIndex ==
    [][(ClickedIndexed(state) /\ state'.tag = "Clicked" /\ ~ panicked')
       => /\ state'.elem.kind = state.elem.kind
          /\ state'.elem.idx = state.elem.idx
          /\ state'.elem.pos = mouse'.pos]_vars

\* C27: with the envelope changed by the editor alone, after every frame a
\* persisted state Highlighted or Clicked on EnvPoint(idx) has idx below
\* the length of the envelope.
C27_PersistedIndexInBounds ==
    (state.tag \in {"Highlighted", "Clicked"} /\ state.elem.kind = "EnvPoint")
    => state.elem.idx < Len(env)

\* C28: a frame that ends a left-button gesture with a release inside the
\* widget changes, when the gesture was captured on the point i, the value
\* of no point other than i, and, when the gesture was pressed on the pad
\* or on the frame, the value of no existing point.
C28_ReleaseTouchesCapturedPointOnly ==
    [][(/\ state.tag = "Clicked" /\ state.button = "Left"
        /\ state'.tag = "Highlighted" /\ ~ panicked')
       => IF state.elem.kind = "EnvPoint"
          THEN /\ Len(env') = Len(env)
               /\ \A j \in 0..(Len(env) - 1) :
                     j # state.elem.idx => At(env', j) = At(env, j)
          ELSE op'.kind \notin {"write", "remove"}]_vars

\* C29: with a callback registered, every frame in which the editor changes
\* the envelope, by a write, a removal or an insertion, invokes the callback
\* exactly once, with the envelope as the frame leaves it.
C29_ChangeInvokesCallback ==
    [][(maybe_callback /\ env' # env)
       => (Len(calls') = 1 /\ calls'[1].env = env')]_vars

\* C30: from an envelope sorted by X with every X within [min_x, max_x],
\* the envelope is sorted by X after every frame, whatever the sequence of
\* drags, left releases, right-click deletions and insertions.
C30_EnvelopeStaysSorted ==
    /\ IsSorted(env)
    /\ \A i \in 1..Len(env) : min_x <= env[i].x /\ env[i].x <= max_x

\* C30 witness: a frame has written a point with the pointer left of the
\* point's left neighbour, and the point has stopped at the neighbour's X.
C30_Witness ==
    /\ op.kind = "write" /\ op.idx >= 1 /\ Len(env) >= 2
    /\ new_point_value(mouse.pos[1], mouse.pos[2]).x < At(env, op.idx - 1).x
    /\ At(env, op.idx).x = At(env, op.idx - 1).x

----------------------------------------------------------------------------
(* Text box: further properties. *)

\* C31: after every frame, whatever fragments and keys its input holds, a
\* persisted Captured(idx, _) has idx <= Len(text), so that the slices
\* text[..idx] and text[idx..] of the next frame are in bounds.
C31_CapturedIndexInBounds ==
    (~ tbPanicked /\ IsCaptured(tbState)) => tbState.cap.idx <= Len(text)

\* C32: after every frame, a persisted Captured(idx, x) has its pixel x at
\* the slot idx of the text: x is the left origin of the text plus the
\* summed measured widths of the first idx characters.
C32_CursorPixelAtIndex ==
    (~ tbPanicked /\ IsCaptured(tbState))
        => /\ tbState.cap.idx <= Len(text)
           /\ tbState.cap.x = SlotX(text, tbState.cap.idx)

\* C33: a frame whose resulting state is Uncaptured leaves the text as it
\* was and does not invoke the handler, whatever fragments and keys its input
\* holds; a frame that edits the text or invokes the handler results in a
\* Captured state.
C33_UncapturedFrameIsInert ==
    [][~ IsCaptured(tbState') => (text' = text /\ tbCalls' = <<>>)]_vars

\* A frame with Return pressed on a non-empty text with a callback
\* registered has resulted in Uncaptured, its steps being those of a frame
\* without writes or callbacks.
C33_Witness ==
    /\ ~ IsCaptured(tbState) /\ maybe_callback /\ text # <<>>
    /\ tbInput = Key("Return")
    /\ tbMouse.pos = <<50, 10>> /\ tbMouse.left = "Up"
    /\ tbState.draw = Normal
    /\ steps = tb_steps(<<>>, FALSE)

====
